---- MODULE Spec2Model ----
(***************************************************************************)
(* Model of the instruction execution engine of GPTSeleniumAgent           *)
(* (src/browserpilot/agents/gpt_selenium_agent.py): the Safety Gate, the   *)
(* Replay Path, the Step Loop with its retry budget, and Session Teardown. *)
(*                                                                         *)
(* A text (Python str) is a sequence of one-character strings, so that     *)
(* `in`, str.replace, str.split and str.join are computed character by     *)
(* character as Python computes them.                                      *)
(***************************************************************************)
EXTENDS Integers, Sequences, FiniteSets, TLC

VARIABLES
    pc,                       \* position of the single thread of control
    path,                     \* branch taken by run(): "none", "replay", "step"
    use_compiled,             \* instruction_compiler.use_compiled
    compiled_instructions,    \* instruction_compiler.compiled_instructions
    instructions_queue,       \* instruction_compiler.instructions_queue
    instruction_output_file,  \* self.instruction_output_file is set (truthy)
    instruction,              \* local `instruction` of the Step Loop (0: none yet)
    action,                   \* local `action` / parameter `instructions`
    attempts,                 \* local `attempts`
    failure,                  \* the exception being handled (traceback.format_exc)
    dangerous,                \* last value returned by _is_potentially_dangerous
    passed,                   \* history: texts on which _check_danger returned
    trace,                    \* history: the calls the engine has made, in order
    ldict,                    \* local `ldict`, the namespace handed to exec
    problem_instruction,      \* local `problem_instruction` of the except clause
    llm                       \* get_llm_response: arguments, requests, result

vars == <<pc, path, use_compiled, compiled_instructions, instructions_queue,
          instruction_output_file, instruction, action, attempts, failure,
          dangerous, passed, trace, ldict, problem_instruction, llm>>

(***************************************************************************)
(* Bounds of the model.                                                    *)
(***************************************************************************)
MaxQueue == 2       \* Instructions initially in the queue: 0..MaxQueue
MaxCompiled == 2    \* Actions in the cached plan at the start: 0..MaxCompiled
MaxFrags == 3       \* fragments concatenated into one Safety Gate input

(***************************************************************************)
(* Characters and text primitives.                                         *)
(***************************************************************************)
NL == <<"\n">>
\* The grave accent (U+0060) is written "bq": the TLA+ lexer does not
\* accept that character inside a string.
Backquote == "bq"
Fence == <<Backquote, Backquote, Backquote>>

\* Python "needle in hay" for a non-empty needle.
Contains(needle, hay) ==
    \E i \in 1..(Len(hay) - Len(needle) + 1) :
        SubSeq(hay, i, i + Len(needle) - 1) = needle

\* Python s.replace(old, new): leftmost, non-overlapping occurrences.
RECURSIVE Replace(_, _, _)
Replace(s, old, new) ==
    IF Len(s) < Len(old) THEN s
    ELSE IF SubSeq(s, 1, Len(old)) = old
         THEN new \o Replace(SubSeq(s, Len(old) + 1, Len(s)), old, new)
         ELSE <<s[1]>> \o Replace(Tail(s), old, new)

\* Python s.split(c) for a one-character separator.
RECURSIVE Split(_, _)
Split(s, c) ==
    IF \A i \in 1..Len(s) : s[i] # c THEN <<s>>
    ELSE LET i == CHOOSE k \in 1..Len(s) :
                      s[k] = c /\ \A j \in 1..(k - 1) : s[j] # c
         IN <<SubSeq(s, 1, i - 1)>> \o Split(SubSeq(s, i + 1, Len(s)), c)

\* Python sep.join(parts).
RECURSIVE Join(_, _)
Join(parts, sep) ==
    IF parts = <<>> THEN <<>>
    ELSE IF Len(parts) = 1 THEN parts[1]
    ELSE parts[1] \o sep \o Join(Tail(parts), sep)

(***************************************************************************)
(* Safety Gate: _is_potentially_dangerous (lines 73-91).                   *)
(***************************************************************************)
ImportSpace == <<"i", "m", "p", "o", "r", "t", " ">>
blacklisted_libraries ==
    { <<"s", "h", "u", "t", "i", "l">>,
      <<"r", "e", "q", "u", "e", "s", "t", "s">>,
      <<"u", "r", "l", "l", "i", "b">> }

is_potentially_dangerous(code_str) ==
    IF Contains(ImportSpace, code_str) THEN TRUE
    ELSE IF \E library \in blacklisted_libraries : Contains(library, code_str)
         THEN TRUE
         ELSE FALSE

(***************************************************************************)
(* The texts the compiler hands to the engine.                             *)
(***************************************************************************)
\* "```x\n\ny```": a fenced Action of two statements separated by a blank line.
FencedAction == Fence \o <<"x", "\n", "\n", "y">> \o Fence
\* "import os": an Action the Safety Gate rejects.
ImportAction == <<"i", "m", "p", "o", "r", "t", " ", "o", "s">>
\* "```x": a fenced one-statement Action of a cached plan.
CachedAction == Fence \o <<"x">>

\* action_output values that step() and retry() may return.
ActionOutputs == {FencedAction, ImportAction}
\* Actions a cached plan may hold.
CachedOutputs == {CachedAction, ImportAction}

SeqsUpTo(S, n) == UNION {[1..k -> S] : k \in 0..n}

NoFailure == [kind |-> "none", line |-> 0]

\* One entry of the history of calls.
\*   op     "step" | "check" | "exec" | "extract" | "retry" | "persist" | "quit"
\*   instr  the Instruction being worked on (0 on the Replay Path)
\*   ok     the call returned normally (check: the text was accepted)
\*   danger exec: _is_potentially_dangerous holds of the executed text
\*   gated  exec: _check_danger had returned on exactly the executed text
\*   unit   exec: "cached" (line 139) or "action" (line 182)
Ev(op, i, ok, danger, gated, unit) ==
    [op |-> op, instr |-> i, ok |-> ok, danger |-> danger, gated |-> gated,
     unit |-> unit]
Call(op, i, ok) == Ev(op, i, ok, FALSE, FALSE, "none")

(***************************************************************************)
(* exec(text, globals(), ldict): the outcomes of running a text.           *)
(* A text fails at one of its statements (a non-empty line), either while  *)
(* running ("raise": the trace names `line N, in <module>`) or while       *)
(* compiling ("syntax": the trace names `line N` followed by the source).  *)
(* A text without a statement cannot fail.                                 *)
(***************************************************************************)
StatementLines(text) ==
    LET lines == Split(text, "\n")
    IN {n \in 1..Len(lines) : lines[n] # <<>>}

ExecOutcomes(text) ==
    {[kind |-> "ok", line |-> 0]}
    \cup {[kind |-> k, line |-> n] : k \in {"raise", "syntax"},
                                    n \in StatementLines(text)}

(***************************************************************************)
(* The Execution Context: ldict = {"env": self} (lines 137, 165).          *)
(* `env` is the value bound to the name env; `names` are the bindings      *)
(* that executed Actions have created, each named after the Instruction    *)
(* whose Action created it (0: the cached plan).                           *)
(***************************************************************************)
NoContext == [env |-> "unbound", names |-> {}]
NewContext == [env |-> "self", names |-> {}]

\* exec runs the statements of a text in order: a statement has completed,
\* and may have bound a name in ldict, iff the text ran to its end or
\* failed while running at a later statement.
CompletedStatement(text, outcome) ==
    \/ outcome.kind = "ok" /\ StatementLines(text) # {}
    \/ outcome.kind = "raise" /\ \E n \in StatementLines(text) : n < outcome.line

Bind(ld, i, text, outcome) ==
    IF CompletedStatement(text, outcome)
    THEN [ld EXCEPT !.names = @ \cup {i}]
    ELSE ld

\* No call of get_llm_response is in progress.
NoLlm == [prompt |-> "none", temperature |-> "none", model |-> "none",
          requests |-> <<>>, result |-> "none"]

(***************************************************************************)
(* States after construction (__init__, lines 33-62).  The compiler is     *)
(* constructed from the caller's instructions: any queue of 0..MaxQueue    *)
(* Instructions (named 1..N in queue order), any cached plan, caching on   *)
(* or off, output file configured or not.                                  *)
(***************************************************************************)
Init ==
    /\ pc = "run"
    /\ path = "none"
    /\ use_compiled \in BOOLEAN
    /\ compiled_instructions \in SeqsUpTo(CachedOutputs, MaxCompiled)
    /\ \E n \in 0..MaxQueue : instructions_queue = [i \in 1..n |-> i]
    /\ instruction_output_file \in BOOLEAN
    /\ instruction = 0
    /\ action = <<>>
    /\ attempts = 0
    /\ failure = NoFailure
    /\ dangerous = FALSE
    /\ passed = {}
    /\ trace = <<>>
    /\ ldict = NoContext
    /\ problem_instruction = <<>>
    /\ llm = NoLlm

(***************************************************************************)
(* run (lines 212-223).                                                    *)
(***************************************************************************)
\* Variant: `or` in place of `and` in the test of line 216.
UseCompiled_Or(should_use_compiled, compiled) ==
    should_use_compiled \/ compiled # <<>>

UseCompiled(should_use_compiled, compiled) ==
    should_use_compiled /\ compiled # <<>>

run ==
    /\ pc = "run"
    /\ IF UseCompiled(use_compiled, compiled_instructions)
       THEN /\ action' = Replace(Join(compiled_instructions, NL), Fence, <<>>)
            /\ path' = "replay"
            /\ pc' = "replay_check"
       ELSE /\ path' = "step"
            /\ pc' = "loop"
            /\ UNCHANGED action
    /\ ldict' = NewContext
    /\ UNCHANGED <<use_compiled, compiled_instructions, instructions_queue,
                   instruction_output_file, instruction, attempts, failure,
                   dangerous, passed, trace,
                   problem_instruction, llm>>

(***************************************************************************)
(* _check_danger (lines 66-71): sys.exit(1) on a dangerous text.           *)
(***************************************************************************)
\* Variant: the warning is logged but the process is not exited.
AfterCheck_NoExit(is_dangerous, next) == next

AfterCheck(is_dangerous, next) == IF is_dangerous THEN "exited" ELSE next

check_danger(action_str, next) ==
    /\ dangerous' = is_potentially_dangerous(action_str)
    /\ pc' = AfterCheck(dangerous', next)
    /\ passed' = IF dangerous' THEN passed ELSE passed \cup {action_str}
    /\ trace' = Append(trace, Call("check", instruction, ~dangerous'))

(***************************************************************************)
(* __run_compiled_instructions (lines 135-140).                            *)
(***************************************************************************)
\* Variant: a failed replay falls back to the Step Loop.
AfterReplayExec_FallBack(outcome) ==
    IF outcome.kind = "ok" THEN "replay_quit" ELSE "loop"

AfterReplayExec(outcome) == IF outcome.kind = "ok" THEN "replay_quit" ELSE "raised"

run_compiled_check ==
    /\ pc = "replay_check"
    /\ check_danger(action, "replay_exec")
    /\ UNCHANGED <<path, use_compiled, compiled_instructions,
                   instructions_queue, instruction_output_file, instruction,
                   action, attempts, failure,
                   ldict, problem_instruction, llm>>

run_compiled_exec ==
    /\ pc = "replay_exec"
    /\ \E outcome \in ExecOutcomes(action) :
          /\ trace' = Append(trace, Ev("exec", 0, outcome.kind = "ok",
                                       is_potentially_dangerous(action),
                                       action \in passed, "cached"))
          /\ failure' = IF outcome.kind = "ok" THEN NoFailure ELSE outcome
          /\ pc' = AfterReplayExec(outcome)
          /\ ldict' = Bind(ldict, 0, action, outcome)
    /\ UNCHANGED <<path, use_compiled, compiled_instructions,
                   instructions_queue, instruction_output_file, instruction,
                   action, attempts, dangerous, passed,
                   problem_instruction, llm>>

run_compiled_quit ==
    /\ pc = "replay_quit"
    /\ trace' = Append(trace, Call("quit", 0, TRUE))
    /\ pc' = "returned"
    /\ UNCHANGED <<path, use_compiled, compiled_instructions,
                   instructions_queue, instruction_output_file, instruction,
                   action, attempts, failure, dangerous, passed,
                   ldict, problem_instruction, llm>>

(***************************************************************************)
(* The instruction compiler, as far as the engine uses it.                 *)
(***************************************************************************)
\* step(): dequeues the next Instruction and returns it with a freshly
\* generated Action `out`, which joins the Compiled Instruction Set.
step(out) ==
    /\ instructions_queue # <<>>
    /\ instruction' = Head(instructions_queue)
    /\ instructions_queue' = Tail(instructions_queue)
    /\ compiled_instructions' = Append(compiled_instructions, out)

\* retry(diagnostic): regenerates the Action of the current Instruction;
\* the new Action `out` replaces the live one, it never stacks.
retry(out) ==
    /\ compiled_instructions' =
          [compiled_instructions EXCEPT ![Len(compiled_instructions)] = out]
    /\ UNCHANGED <<instruction, instructions_queue>>

(***************************************************************************)
(* __get_relevant_part_of_stack_trace (lines 148-159).                     *)
(* Lines [3:5] of traceback.format_exc() are the frame of the executed     *)
(* text and the line after it.  They are written here in short form: the   *)
(* frame `  File "<string>", line N, in <module>` as `F, line N, m`, the   *)
(* exception line as `E`, and for a failure while compiling the frame      *)
(* `  File "<string>", line N` as `F, line N` followed by the echoed       *)
(* source line, written ` s`.  The rewriting of the class name (line 156)  *)
(* changes only the returned text and is not represented.                  *)
(***************************************************************************)
Digits == <<"0", "1", "2", "3", "4", "5", "6", "7", "8", "9">>

\* str(n) for n >= 0.
RECURSIVE Str(_)
Str(n) == IF n < 10 THEN <<Digits[n + 1]>>
          ELSE Str(n \div 10) \o <<Digits[(n % 10) + 1]>>

Whitespace == {" ", "\n", "\t"}
IsDigit(c) == \E d \in 1..10 : Digits[d] = c
DigitVal(c) == (CHOOSE d \in 1..10 : Digits[d] = c) - 1

RECURSIVE Strip(_)
Strip(s) ==
    IF s # <<>> /\ s[1] \in Whitespace THEN Strip(Tail(s))
    ELSE IF s # <<>> /\ s[Len(s)] \in Whitespace THEN Strip(SubSeq(s, 1, Len(s) - 1))
    ELSE s

RECURSIVE DecimalValue(_)
DecimalValue(s) ==
    IF s = <<>> THEN 0
    ELSE 10 * DecimalValue(SubSeq(s, 1, Len(s) - 1)) + DigitVal(s[Len(s)])

\* int(s) for an unsigned decimal numeral between blanks; -1 stands for
\* the ValueError that int() raises on any other text.
ParseInt(s) ==
    LET t == Strip(s)
    IN IF t # <<>> /\ \A k \in 1..Len(t) : IsDigit(t[k])
       THEN DecimalValue(t)
       ELSE -1

\* Python s.split(sep) for a separator of one or more characters.
RECURSIVE SplitStr(_, _)
SplitStr(s, sep) ==
    IF ~Contains(sep, s) THEN <<s>>
    ELSE LET i == CHOOSE k \in 1..(Len(s) - Len(sep) + 1) :
                      /\ SubSeq(s, k, k + Len(sep) - 1) = sep
                      /\ \A j \in 1..(k - 1) : SubSeq(s, j, j + Len(sep) - 1) # sep
         IN <<SubSeq(s, 1, i - 1)>> \o SplitStr(SubSeq(s, i + Len(sep), Len(s)), sep)

LineSpace == <<"l", "i", "n", "e", " ">>
FrameHead == <<"F", ",", " ", "l", "i", "n", "e", " ">>

\* Lines 150-152: "\n".join(traceback.format_exc().split("\n")[3:5]).
StackTrace(exc) ==
    IF exc.kind = "raise"
    THEN FrameHead \o Str(exc.line) \o <<",", " ", "m">> \o NL \o <<"E">>
    ELSE FrameHead \o Str(exc.line) \o NL \o <<" ", "s">>

\* Line 158: int(stack_trace.split("line ")[1].split(",")[0]).
get_relevant_part_of_stack_trace(exc) ==
    LET stack_trace == StackTrace(exc)
        line_num == ParseInt(SplitStr(SplitStr(stack_trace, LineSpace)[2], <<",">>)[1])
    IN IF line_num < 0
       THEN [raised |-> TRUE, line_num |-> 0]
       ELSE [raised |-> FALSE, line_num |-> line_num]

\* Line 189: action.replace("\n\n", "\n").split("\n")[line_num - 1]
\* raises IndexError when line_num exceeds the number of normalized lines
\* (line_num is at least 1, so the index is never negative).
NormalizedLines(text) == Split(Replace(text, <<"\n", "\n">>, NL), "\n")

DiagnosticRaises(text, exc) ==
    LET r == get_relevant_part_of_stack_trace(exc)
    IN \/ r.raised
       \/ r.line_num > Len(NormalizedLines(text))

\* Lines 188-190: "\nFailed on line: {line}\n".format(line=...).
FailedOnLine(line) == NL \o <<"F", "a", "i", "l", "e", "d", " ", "o", "n", " ", "l", "i", "n", "e", ":", " ">> \o line \o NL

ProblemInstruction(text, exc) ==
    FailedOnLine(NormalizedLines(text)[get_relevant_part_of_stack_trace(exc).line_num])

(***************************************************************************)
(* __step_through_instructions (lines 161-208).                            *)
(***************************************************************************)
Budget == 3

\* Variant: the loop stops with one Instruction left in the queue.
LoopCondition_SkipLast(queue) == Len(queue) > 1

\* Line 166: `while self.instruction_compiler.instructions_queue`.
LoopCondition(queue) == queue # <<>>

\* Variant: no `break` after a successful exec.
AfterExec_NoBreak(outcome) == IF outcome.kind = "ok" THEN "attempt" ELSE "except"

\* Lines 181-184: `break` on success, the except clause on failure.
AfterExec(outcome) == IF outcome.kind = "ok" THEN "loop" ELSE "except"

\* Variant: `ldict = {"env": self}` sits inside the while loop, so every
\* Instruction starts with a fresh namespace.
loop_step_FreshContext ==
    /\ pc = "loop"
    /\ LoopCondition(instructions_queue)
    /\ \E out \in ActionOutputs :
          /\ step(out)
          /\ action' = Replace(out, Fence, <<>>)
    /\ trace' = Append(trace, Call("step", instruction', TRUE))
    /\ pc' = "check"
    /\ ldict' = NewContext
    /\ UNCHANGED <<path, use_compiled, instruction_output_file, attempts,
                   failure, dangerous, passed, problem_instruction, llm>>

\* Lines 166-174: the loop test, step(), and the removal of the fences.
loop_step ==
    /\ pc = "loop"
    /\ LoopCondition(instructions_queue)
    /\ \E out \in ActionOutputs :
          /\ step(out)
          /\ action' = Replace(out, Fence, <<>>)
    /\ trace' = Append(trace, Call("step", instruction', TRUE))
    /\ pc' = "check"
    /\ UNCHANGED <<path, use_compiled, instruction_output_file, attempts,
                   failure, dangerous, passed,
                   ldict, problem_instruction, llm>>

\* Variant: `attempts = 0` is missing; the counter carries over from the
\* previous Instruction.
step_check_NoReset ==
    /\ pc = "check"
    /\ check_danger(action, "attempt")
    /\ UNCHANGED <<path, use_compiled, compiled_instructions,
                   instructions_queue, instruction_output_file, instruction,
                   action, attempts, failure,
                   ldict, problem_instruction, llm>>

\* Lines 175-178: the Safety Gate on the Action of step(), then attempts = 0.
step_check ==
    /\ pc = "check"
    /\ check_danger(action, "attempt")
    /\ attempts' = IF dangerous' THEN attempts ELSE 0
    /\ UNCHANGED <<path, use_compiled, compiled_instructions,
                   instructions_queue, instruction_output_file, instruction,
                   action, failure,
                   ldict, problem_instruction, llm>>

\* Variant: `attempts = attempts + 1` is missing; a failing Instruction is
\* retried without end.
attempt_exec_NoCount ==
    /\ pc = "attempt"
    /\ attempts < Budget
    /\ \E outcome \in ExecOutcomes(action) :
          /\ trace' = Append(trace, Ev("exec", instruction, outcome.kind = "ok",
                                       is_potentially_dangerous(action),
                                       action \in passed, "action"))
          /\ failure' = IF outcome.kind = "ok" THEN NoFailure ELSE outcome
          /\ pc' = AfterExec(outcome)
          /\ ldict' = Bind(ldict, instruction, action, outcome)
    /\ UNCHANGED <<path, use_compiled, compiled_instructions,
                   instructions_queue, instruction_output_file, instruction,
                   action, attempts, dangerous, passed,
                   problem_instruction, llm>>

\* Lines 179-184: one iteration of `while attempts < 3` up to the exec.
attempt_exec ==
    /\ pc = "attempt"
    /\ attempts < Budget
    /\ attempts' = attempts + 1
    /\ \E outcome \in ExecOutcomes(action) :
          /\ trace' = Append(trace, Ev("exec", instruction, outcome.kind = "ok",
                                       is_potentially_dangerous(action),
                                       action \in passed, "action"))
          /\ failure' = IF outcome.kind = "ok" THEN NoFailure ELSE outcome
          /\ pc' = AfterExec(outcome)
          /\ ldict' = Bind(ldict, instruction, action, outcome)
    /\ UNCHANGED <<path, use_compiled, compiled_instructions,
                   instructions_queue, instruction_output_file, instruction,
                   action, dangerous, passed,
                   problem_instruction, llm>>

\* Line 179: the while condition is false; control falls to line 166.
attempt_exhausted ==
    /\ pc = "attempt"
    /\ ~(attempts < Budget)
    /\ pc' = "loop"
    /\ UNCHANGED <<path, use_compiled, compiled_instructions,
                   instructions_queue, instruction_output_file, instruction,
                   action, attempts, failure, dangerous, passed, trace,
                   ldict, problem_instruction, llm>>

\* Lines 185-201: the except clause.  Building the diagnostic may raise,
\* and that exception leaves run(); otherwise retry() supplies a new Action.
recover ==
    /\ pc = "except"
    /\ IF DiagnosticRaises(action, failure)
       THEN /\ trace' = Append(trace, Call("extract", instruction, FALSE))
            /\ pc' = "raised"
            /\ UNCHANGED <<compiled_instructions, instructions_queue,
                           instruction, action, failure,
                           problem_instruction>>
       ELSE /\ \E out \in ActionOutputs :
                  /\ retry(out)
                  /\ action' = Replace(out, Fence, <<>>)
            /\ trace' = trace \o <<Call("extract", instruction, TRUE),
                                   Call("retry", instruction, TRUE)>>
            /\ problem_instruction' = ProblemInstruction(action, failure)
            /\ failure' = NoFailure
            /\ pc' = "attempt"
    /\ UNCHANGED <<path, use_compiled, instruction_output_file, attempts,
                   dangerous, passed,
                   ldict, llm>>

\* Variant: the compiled instructions are saved whether or not an output
\* file is configured.
drain_AlwaysPersist ==
    /\ pc = "loop"
    /\ ~LoopCondition(instructions_queue)
    /\ trace' = Append(trace, Call("persist", instruction, TRUE))
    /\ pc' = "quit"
    /\ UNCHANGED <<path, use_compiled, compiled_instructions,
                   instructions_queue, instruction_output_file, instruction,
                   action, attempts, failure, dangerous, passed,
                   ldict, problem_instruction, llm>>

\* Lines 166, 203-206: the queue is empty; save when an output file is set.
drain ==
    /\ pc = "loop"
    /\ ~LoopCondition(instructions_queue)
    /\ trace' = IF instruction_output_file
                THEN Append(trace, Call("persist", instruction, TRUE))
                ELSE trace
    /\ pc' = "quit"
    /\ UNCHANGED <<path, use_compiled, compiled_instructions,
                   instructions_queue, instruction_output_file, instruction,
                   action, attempts, failure, dangerous, passed,
                   ldict, problem_instruction, llm>>

\* Line 208: exec("env.driver.quit()").
quit ==
    /\ pc = "quit"
    /\ trace' = Append(trace, Call("quit", instruction, TRUE))
    /\ pc' = "returned"
    /\ UNCHANGED <<path, use_compiled, compiled_instructions,
                   instructions_queue, instruction_output_file, instruction,
                   action, attempts, failure, dangerous, passed,
                   ldict, problem_instruction, llm>>

Next ==
    \/ run
    \/ run_compiled_check
    \/ run_compiled_exec
    \/ run_compiled_quit
    \/ loop_step
    \/ step_check
    \/ attempt_exec
    \/ attempt_exhausted
    \/ recover
    \/ drain
    \/ quit

Spec == Init /\ [][Next]_vars

(***************************************************************************)
(* The Safety Gate as a function of its input: _is_potentially_dangerous   *)
(* applied to texts concatenated from at most MaxFrags fragments.          *)
(***************************************************************************)
ImportKeyword == <<"i", "m", "p", "o", "r", "t">>
\* `import`, ` os`, `\tos`, a newline, `x`, and the denylisted names.
Fragments ==
    { ImportKeyword, <<" ", "o", "s">>, <<"\t", "o", "s">>, NL, <<"x">> }
        \cup blacklisted_libraries

RECURSIVE Flatten(_)
Flatten(parts) == IF parts = <<>> THEN <<>> ELSE Head(parts) \o Flatten(Tail(parts))

GateInputs == {Flatten(parts) : parts \in SeqsUpTo(Fragments, MaxFrags)}

GateInit ==
    /\ pc = "gate_call"
    /\ action \in GateInputs
    /\ path = "none"
    /\ use_compiled = FALSE
    /\ compiled_instructions = <<>>
    /\ instructions_queue = <<>>
    /\ instruction_output_file = FALSE
    /\ instruction = 0
    /\ attempts = 0
    /\ failure = NoFailure
    /\ dangerous = FALSE
    /\ passed = {}
    /\ trace = <<>>
    /\ ldict = NoContext
    /\ problem_instruction = <<>>
    /\ llm = NoLlm

gate_call ==
    /\ pc = "gate_call"
    /\ dangerous' = is_potentially_dangerous(action)
    /\ pc' = "gate_ret"
    /\ UNCHANGED <<path, use_compiled, compiled_instructions,
                   instructions_queue, instruction_output_file, instruction,
                   action, attempts, failure, passed, trace,
                   ldict, problem_instruction, llm>>

GateNext == gate_call

GateSpec == GateInit /\ [][GateNext]_vars

(***************************************************************************)
(* The building of the diagnostic (lines 185-190) as a function of the     *)
(* Action text and of the line at which its execution raised: texts of     *)
(* 1..MaxLines lines, each empty or one statement.                         *)
(***************************************************************************)
MaxLines == 4

DiagLines == {<<>>, <<"x">>, <<"y">>}
DiagTexts == {Join(ls, NL) : ls \in SeqsUpTo(DiagLines, MaxLines) \ {<<>>}}

DiagInit ==
    /\ pc = "diag_call"
    /\ action \in DiagTexts
    /\ \E n \in StatementLines(action) : failure = [kind |-> "raise", line |-> n]
    /\ path = "none"
    /\ use_compiled = FALSE
    /\ compiled_instructions = <<>>
    /\ instructions_queue = <<>>
    /\ instruction_output_file = FALSE
    /\ instruction = 0
    /\ attempts = 0
    /\ dangerous = FALSE
    /\ passed = {}
    /\ trace = <<>>
    /\ ldict = NoContext
    /\ problem_instruction = <<>>
    /\ llm = NoLlm

build_diagnostic ==
    /\ pc = "diag_call"
    /\ IF DiagnosticRaises(action, failure)
       THEN /\ pc' = "diag_raised"
            /\ UNCHANGED problem_instruction
       ELSE /\ problem_instruction' = ProblemInstruction(action, failure)
            /\ pc' = "diag_ret"
    /\ UNCHANGED <<path, use_compiled, compiled_instructions,
                   instructions_queue, instruction_output_file, instruction,
                   action, attempts, failure, dangerous, passed, trace,
                   ldict, llm>>

DiagNext == build_diagnostic

DiagSpec == DiagInit /\ [][DiagNext]_vars

(***************************************************************************)
(* get_llm_response (lines 322-344): one completion request per call; on   *)
(* a RateLimitError the method sleeps and calls itself.  `llm` holds the   *)
(* parameters of the innermost call, the requests issued so far, and the   *)
(* text returned to the caller.  Temperatures are written as strings so    *)
(* that a model name can take their place, as Python allows.               *)
(***************************************************************************)
MaxRateLimits == 3

DefaultTemperature == "0.7"
DefaultModel == "text-davinci-003"

Prompts == {"p1", "p2", "p3"}
Temperatures == {"0", DefaultTemperature}
Models == {DefaultModel, "text-davinci-002"}
Responses == {"r1", "r2", "r3"}

LlmInit ==
    /\ pc = "llm_call"
    /\ \E p \in Prompts, t \in Temperatures, m \in Models :
          llm = [prompt |-> p, temperature |-> t, model |-> m,
                 requests |-> <<>>, result |-> "none"]
    /\ path = "none"
    /\ use_compiled = FALSE
    /\ compiled_instructions = <<>>
    /\ instructions_queue = <<>>
    /\ instruction_output_file = FALSE
    /\ instruction = 0
    /\ action = <<>>
    /\ attempts = 0
    /\ failure = NoFailure
    /\ dangerous = FALSE
    /\ passed = {}
    /\ trace = <<>>
    /\ ldict = NoContext
    /\ problem_instruction = <<>>

\* Lines 324-333: openai.Completion.create(model=model, prompt=prompt,
\* temperature=temperature, ...).
Request(call) ==
    [prompt |-> call.prompt, temperature |-> call.temperature,
     model |-> call.model]

\* Line 344: return self.get_llm_response(prompt, model).  The second
\* positional parameter is temperature; model takes its default.
RetryCall(call) ==
    [call EXCEPT !.temperature = call.model, !.model = DefaultModel]

\* The request either is refused for the rate limit (at most MaxRateLimits
\* times), or returns a completion, or, when the temperature is not a
\* number, is refused as invalid, which get_llm_response does not catch.
get_llm_response ==
    /\ pc = "llm_call"
    /\ LET issued == [llm EXCEPT !.requests = Append(@, Request(llm))]
       IN \/ /\ Len(llm.requests) < MaxRateLimits
             /\ llm' = RetryCall(issued)
             /\ pc' = "llm_call"
          \/ /\ llm.temperature \in Temperatures
             /\ \E text \in Responses : llm' = [issued EXCEPT !.result = text]
             /\ pc' = "llm_ret"
          \/ /\ llm.temperature \notin Temperatures
             /\ llm' = issued
             /\ pc' = "llm_raised"
    /\ UNCHANGED <<path, use_compiled, compiled_instructions,
                   instructions_queue, instruction_output_file, instruction,
                   action, attempts, failure, dangerous, passed, trace,
                   ldict, problem_instruction>>

LlmNext == get_llm_response

LlmSpec == LlmInit /\ [][LlmNext]_vars

(***************************************************************************)
(* Reading the history.                                                    *)
(***************************************************************************)
Idx(op) == {k \in 1..Len(trace) : trace[k].op = op}
Steps == Idx("step")
Execs(i) == {k \in Idx("exec") : trace[k].instr = i}
FailedExecs(i) == {k \in Execs(i) : ~trace[k].ok}
Retries(i) == {k \in Idx("retry") : trace[k].instr = i}
Succeeded(i) == \E k \in Execs(i) : trace[k].ok
Rejected == \E k \in Idx("check") : ~trace[k].ok
Instructions == 1..(MaxQueue + 1)
IsExec(e) == e.op = "exec"
ExecSeq == SelectSeq(trace, IsExec)

(***************************************************************************)
(* C1.  If the Actions of one Instruction fail on Budget consecutive       *)
(* executions, run() aborts: no step() and no execution for a later        *)
(* Instruction; the Step Loop reaches "Drain complete" only if every       *)
(* dequeued Instruction had an Action that executed successfully.          *)
(***************************************************************************)
C1_AbortOnExhaustedBudget ==
    /\ \A i \in Instructions :
          Cardinality(FailedExecs(i)) >= Budget =>
              \A k \in Steps \cup Idx("exec") : trace[k].instr <= i
    /\ (path = "step" /\ pc \in {"quit", "returned"}) =>
          \A k \in Steps : Succeeded(trace[k].instr)

(***************************************************************************)
(* C2.  For an Instruction whose Actions fail on Budget consecutive        *)
(* executions, retry is called exactly Budget - 1 times: 1 initial Action  *)
(* plus at most Budget - 1 corrected Actions are ever requested.           *)
(***************************************************************************)
C2_RetryBudgetMinusOne ==
    \A i \in Instructions :
        /\ Cardinality(Retries(i)) <= Budget - 1
        /\ Cardinality(FailedExecs(i)) = Budget =>
              Cardinality(Retries(i)) = Budget - 1

(***************************************************************************)
(* C3.  Every executed text has first passed the Safety Gate as the exact  *)
(* text that is executed, and no executed text contains an import          *)
(* statement or a denylisted substring.                                    *)
(***************************************************************************)
C3_ExecutedActionsPassedGate ==
    \A k \in Idx("exec") : trace[k].gated /\ ~trace[k].danger

(***************************************************************************)
(* C4.  Session Teardown is invoked exactly once per run(), whether run()  *)
(* returns normally or propagates a failure.                               *)
(***************************************************************************)
C4_TeardownExactlyOnce ==
    /\ Cardinality(Idx("quit")) <= 1
    /\ pc \in {"returned", "raised"} => Cardinality(Idx("quit")) = 1

(***************************************************************************)
(* C5.  When the Safety Gate rejects a text the process exits at once:     *)
(* the rejection is the last call the engine makes (no later step, retry,  *)
(* exec, persist or teardown), the rejected Action is never executed, on   *)
(* the Replay Path nothing has been executed, and in the Step Loop only    *)
(* Actions of earlier Instructions have been executed.                     *)
(***************************************************************************)
C5_RejectionExits ==
    Rejected =>
        /\ pc = "exited"
        /\ trace[Len(trace)].op = "check" /\ ~trace[Len(trace)].ok
        /\ Cardinality(Idx("check") \cap {k \in 1..Len(trace) : ~trace[k].ok}) = 1
        /\ Idx("persist") = {} /\ Idx("quit") = {}
        /\ \A k \in Idx("exec") : trace[k].instr < trace[Len(trace)].instr
        /\ path = "replay" => Idx("exec") = {}

C5_Witness ==
    /\ Rejected
    /\ path = "step"
    /\ instruction = 2
    /\ Cardinality(Execs(1)) = Budget

(***************************************************************************)
(* C6.  run() takes the Replay Path iff caching is enabled and the         *)
(* Compiled Instruction Set is non-empty, else the Step Loop.  On the      *)
(* Replay Path step() is never called and the only text executed is the    *)
(* one unit joined from the cached Actions, executed once the Safety Gate  *)
(* has passed it; in the Step Loop the cached unit is never executed.      *)
(***************************************************************************)
C6_PathInvariant ==
    /\ path = "none" <=> pc = "run"
    /\ path = "replay" =>
          /\ Steps = {}
          /\ \A k \in Idx("exec") : trace[k].unit = "cached"
          /\ Cardinality(Idx("exec")) <= 1
          /\ action = Replace(Join(compiled_instructions, NL), Fence, <<>>)
          /\ pc \in {"replay_quit", "returned", "raised"} =>
                Cardinality(Idx("exec")) = 1
    /\ path = "step" => \A k \in Idx("exec") : trace[k].unit = "action"

C6_PathChoice ==
    pc = "run" =>
        /\ path' = "replay" <=> (use_compiled /\ compiled_instructions # <<>>)
        /\ path' = "step" <=> ~(use_compiled /\ compiled_instructions # <<>>)

C6_ReplayIffCached == [](C6_PathInvariant) /\ [][C6_PathChoice]_vars

C6_Witness ==
    /\ path = "replay"
    /\ pc = "returned"
    /\ Len(compiled_instructions) = 2
    /\ Cardinality(Idx("exec")) = 1

(***************************************************************************)
(* C7.  For an Instruction whose first K Actions fail (0 <= K < Budget)    *)
(* and whose (K+1)-th succeeds, retry is called exactly K times, exactly   *)
(* K+1 Actions are executed for it, the success is its last execution,     *)
(* and control goes back to the loop test (next Instruction or drain).     *)
(***************************************************************************)
C7_SuccessInvariant ==
    \A i \in Instructions :
        Succeeded(i) =>
            LET n == Cardinality(Execs(i))
            IN /\ n <= Budget
               /\ Cardinality(FailedExecs(i)) = n - 1
               /\ Cardinality(Retries(i)) = n - 1
               /\ \A k \in FailedExecs(i) : \E j \in Execs(i) : j > k /\ trace[j].ok

C7_SuccessAdvances ==
    \A i \in Instructions : (~Succeeded(i) /\ Succeeded(i)') => pc' = "loop"

C7_RetryExactlyK == [](C7_SuccessInvariant) /\ [][C7_SuccessAdvances]_vars

C7_Witness ==
    /\ Succeeded(1)
    /\ Cardinality(Execs(1)) = Budget
    /\ Cardinality(Retries(1)) = Budget - 1
    /\ instruction = 2

(***************************************************************************)
(* C8.  For a queue of N Instructions whose Actions all succeed on their   *)
(* first execution, the Step Loop calls step() N times, executes N         *)
(* Actions, one per Instruction in queue order, never calls retry, and     *)
(* reaches "Drain complete" with the queue empty.                          *)
(***************************************************************************)
C8_DrainInvariant ==
    (path = "step" /\ pc \in {"quit", "returned"}
       /\ \A k \in Idx("exec") : trace[k].ok) =>
        LET n == Cardinality(Steps)
        IN /\ instructions_queue = <<>>
           /\ Len(ExecSeq) = n
           /\ \A j \in 1..n : ExecSeq[j].instr = j
           /\ Idx("retry") = {}

\* step() is the only call that changes the queue, and it removes one
\* Instruction: calls of step() + queued Instructions stays N.
C8_Consumption ==
    Cardinality(Steps)' + Len(instructions_queue')
        = Cardinality(Steps) + Len(instructions_queue)

C8_AllFirstTry == [](C8_DrainInvariant) /\ [][C8_Consumption]_vars

C8_Witness ==
    /\ path = "step"
    /\ pc = "returned"
    /\ Cardinality(Steps) = 2
    /\ Len(ExecSeq) = 2
    /\ \A k \in Idx("exec") : trace[k].ok

(***************************************************************************)
(* C9.  A failure of the cached plan on the Replay Path leaves run() as a  *)
(* failure: no retry, no Diagnostic, no step(), no persist, and the        *)
(* Compiled Instruction Set is unchanged.                                  *)
(***************************************************************************)
C9_ReplayFailureInvariant ==
    (path = "replay" /\ \E k \in Idx("exec") : ~trace[k].ok) =>
        /\ pc = "raised"
        /\ Idx("retry") = {} /\ Idx("extract") = {}
        /\ Steps = {} /\ Idx("persist") = {}

C9_CompiledUnchanged ==
    path' = "replay" =>
        UNCHANGED <<compiled_instructions, instructions_queue>>

C9_ReplayFailureFatal ==
    [](C9_ReplayFailureInvariant) /\ [][C9_CompiledUnchanged]_vars

C9_Witness ==
    /\ path = "replay"
    /\ pc = "raised"
    /\ Len(compiled_instructions) = 2
    /\ \E k \in Idx("exec") : ~trace[k].ok

(***************************************************************************)
(* C10.  The Safety Gate rejects a text iff it contains an import          *)
(* statement or a denylisted capability name.  An import statement is the  *)
(* keyword `import` at the start of a line, followed by blanks (space or   *)
(* tab) and a module name.                                                 *)
(***************************************************************************)
Blanks == {" ", "\t"}
NameChars == {"i", "m", "p", "o", "r", "t", "s", "x", "h", "u", "l", "e", "q", "b"}

RECURSIVE LStrip(_)
LStrip(s) == IF s # <<>> /\ s[1] \in Blanks THEN LStrip(Tail(s)) ELSE s

IsImportStatement(line) ==
    /\ Len(line) > Len(ImportKeyword)
    /\ SubSeq(line, 1, Len(ImportKeyword)) = ImportKeyword
    /\ line[Len(ImportKeyword) + 1] \in Blanks
    /\ LET rest == LStrip(SubSeq(line, Len(ImportKeyword) + 1, Len(line)))
       IN rest # <<>> /\ rest[1] \in NameChars

HasImportStatement(text) ==
    LET lines == Split(text, "\n")
    IN \E n \in 1..Len(lines) : IsImportStatement(lines[n])

HasDenylistedName(text) ==
    \E library \in blacklisted_libraries : Contains(library, text)

C10_GateExact ==
    pc = "gate_ret" =>
        (dangerous <=> (HasImportStatement(action) \/ HasDenylistedName(action)))

(***************************************************************************)
(* C11.  persist is invoked only at the end of a fully successful run:     *)
(* whenever persist has been called, every Instruction of the run had an   *)
(* Action that executed successfully.                                      *)
(***************************************************************************)
C11_PersistOnlyAfterSuccess ==
    Idx("persist") # {} =>
        /\ instructions_queue = <<>>
        /\ \A k \in Steps : Succeeded(trace[k].instr)

(***************************************************************************)
(* C12.  In the Step Loop, once the queue is drained, persist is invoked   *)
(* exactly once iff an output file is configured, after the last Action    *)
(* execution and before Session Teardown; it is never invoked while the    *)
(* queue is non-empty and never on the Replay Path.                        *)
(***************************************************************************)
C12_PersistAtDrain ==
    /\ Cardinality(Idx("persist")) <= 1
    /\ path = "replay" => Idx("persist") = {}
    /\ \A p \in Idx("persist") :
          /\ instruction_output_file
          /\ instructions_queue = <<>>
          /\ \A k \in Idx("exec") \cup Steps \cup Idx("retry") : k < p
          /\ \A q \in Idx("quit") : p < q
    /\ (path = "step" /\ pc \in {"quit", "returned"}) =>
          (Cardinality(Idx("persist")) = 1 <=> instruction_output_file)
    /\ (path = "step" /\ pc = "returned" /\ instruction_output_file) =>
          \E p \in Idx("persist") : \E q \in Idx("quit") : p < q

C12_Witness ==
    /\ path = "step"
    /\ pc = "returned"
    /\ Cardinality(Idx("persist")) = 1
    /\ Cardinality(Steps) = 2
    /\ Idx("retry") # {}

(***************************************************************************)
(* C13.  For every Action text of one or more lines (any of them may be    *)
(* empty) and every line at which its execution fails, building the        *)
(* diagnostic does not itself fail, and the diagnostic holds the source    *)
(* line of the Action at which the execution failed.                       *)
(***************************************************************************)
C13_DiagnosticLine ==
    /\ pc # "diag_raised"
    /\ pc = "diag_ret" =>
          problem_instruction = FailedOnLine(Split(action, "\n")[failure.line])

(***************************************************************************)
(* C14.  The retry state is per Instruction and bounded: the attempt       *)
(* counter is 0 when the first Action of a newly dequeued Instruction is   *)
(* about to be executed, while an Instruction is being attempted the       *)
(* counter equals the number of executions made for that Instruction       *)
(* alone, and no Instruction ever gets more than Budget executions.        *)
(***************************************************************************)
C14_CounterInvariant ==
    /\ \A i \in Instructions : Cardinality(Execs(i)) <= Budget
    /\ pc \in {"attempt", "except"} =>
          /\ attempts = Cardinality(Execs(instruction))
          /\ attempts <= Budget

C14_CounterRestarts ==
    (pc = "check" /\ pc' = "attempt") => attempts' = 0

C14_PerInstructionBudget ==
    [](C14_CounterInvariant) /\ [][C14_CounterRestarts]_vars

C14_Witness ==
    /\ instruction = 2
    /\ pc = "except"
    /\ Cardinality(FailedExecs(1)) = Budget
    /\ Cardinality(FailedExecs(2)) = Budget
    /\ attempts = Budget

(***************************************************************************)
(* C15.  One Execution Context is created per run() and shared by every    *)
(* execution of that run: `env` is bound to the engine from the moment     *)
(* the context is created up to and including the session close, the       *)
(* context is never replaced, and a binding created by an earlier Action   *)
(* is present for every later one.                                         *)
(***************************************************************************)
C15_ContextInvariant ==
    /\ path = "none" => ldict = NoContext
    /\ path # "none" => ldict.env = "self"
    /\ \A i \in 0..(MaxQueue + 1) :
          (\E k \in Idx("exec") : trace[k].instr = i /\ trace[k].ok) =>
              i \in ldict.names

C15_ContextKept ==
    path # "none" => (ldict.names \subseteq ldict'.names /\ ldict'.env = ldict.env)

C15_SharedContext == [](C15_ContextInvariant) /\ [][C15_ContextKept]_vars

C15_Witness ==
    /\ path = "step"
    /\ pc = "returned"
    /\ ldict = [env |-> "self", names |-> {1, 2}]
    /\ Cardinality(Execs(1)) = 1
    /\ Cardinality(Execs(2)) > 1

(***************************************************************************)
(* C16.  Every Action obtained from the compiler (by step() or retry()) is *)
(* executed before the engine moves on: once the engine has left an        *)
(* Instruction, the number of Actions obtained for it (1 + the calls of    *)
(* retry) equals the number of executions made for it.                     *)
(***************************************************************************)
C16_ObtainedEqualsExecuted ==
    \A k \in Steps :
        LET i == trace[k].instr
        IN (i < instruction \/ pc \in {"loop", "quit", "returned"}) =>
              1 + Cardinality(Retries(i)) = Cardinality(Execs(i))

(***************************************************************************)
(* C17.  run() terminates for every queue and every pattern of successes   *)
(* and failures: a natural-number measure decreases with every step the    *)
(* engine takes, the engine is always at one of the positions of run()    *)
(* (so that it is never stuck elsewhere), and no Instruction gets more     *)
(* than Budget executions or more than Budget calls of retry.              *)
(***************************************************************************)
Terminated == pc \in {"returned", "raised", "exited"}

Rank ==
    CASE Terminated -> 0
      [] pc \in {"quit", "replay_quit"} -> 1
      [] pc \in {"loop", "replay_exec"} -> 2
      [] pc = "replay_check" -> 3
      [] pc = "run" -> 4
      [] pc = "attempt" -> 2 * (Budget - attempts) + 3
      [] pc = "except" -> 2 * (Budget - attempts) + 4
      [] pc = "check" -> 2 * Budget + 4

Measure == (2 * Budget + 4) * Len(instructions_queue) + Rank

C17_Bounded ==
    /\ Measure \in Nat
    /\ ~Terminated =>
          pc \in {"run", "replay_check", "replay_exec", "replay_quit", "loop",
                  "check", "attempt", "except", "quit"}
    /\ pc \in {"replay_exec", "attempt"} => ExecOutcomes(action) # {}
    /\ \A i \in Instructions :
          /\ Cardinality(Execs(i)) <= Budget
          /\ Cardinality(Retries(i)) <= Budget

C17_MeasureDecreases == Measure' < Measure

C17_Terminates == [](C17_Bounded) /\ [][C17_MeasureDecreases]_vars

C17_Witness ==
    /\ pc = "returned"
    /\ Cardinality(Steps) = 2
    /\ Cardinality(Execs(1)) = Budget
    /\ Cardinality(Retries(1)) = Budget

(***************************************************************************)
(* C18.  When a completion request fails with a rate-limit error, the      *)
(* request is issued again with the same prompt, the same temperature and  *)
(* the same model, for any number of consecutive rate-limit errors, and    *)
(* the result of the first request that succeeds is returned.              *)
(***************************************************************************)
C18_SameRequestReissued ==
    /\ \A k \in 1..Len(llm.requests) : llm.requests[k] = llm.requests[1]
    /\ pc # "llm_raised"
    /\ pc = "llm_ret" => llm.result \in Responses

====
